---- MODULE Spec2Model ----
(***************************************************************************)
(* State-machine model of TS4ModFolderBuilderog.py: the settings store     *)
(* (load_settings / save_settings over DEFAULT_SETTINGS and               *)
(* settings_data), the naming-rule function and ModBuilderApp.generate_mod.*)
(*                                                                         *)
(* Conventions.                                                            *)
(*  - A JSON / Python scalar is a string ("true", "false", "5", "R").      *)
(*  - A dict entry is a record [k, s, d]: k = "absent" (key not present),  *)
(*    "s" (scalar s), "d" (a dict object owned by the entry, contents d)   *)
(*    or "ref" (a reference to one of the two nested dict objects that     *)
(*    DEFAULT_SETTINGS owns; s names the object).  References model        *)
(*    Python's shallow dict.copy(): the copy shares the nested objects.    *)
(*  - A nested dict is a function over NestedKeys whose absent keys map    *)
(*    to ABSENT.                                                           *)
(*  - A text is a sequence of characters; a path is a sequence of          *)
(*    components [stem, ext].                                              *)
(***************************************************************************)
EXTENDS Naturals, Sequences, FiniteSets, TLC

VARIABLES
    pc,               \* "start": before load_settings(); "main": main window idle;
                      \* "prompt": the modal open-location prompt is showing
    settings_file,    \* disk: settings.json
    settings_bak,     \* disk: settings.json.bak
    settings_data,    \* memory: the global settings_data (top-level dict)
    nested,           \* memory: contents of the two nested dict objects of DEFAULT_SETTINGS
    dialogs,          \* message boxes shown by the last handler, in order
    folder_name_var, file_name_var,                 \* ModBuilderApp entry variables
    script_var, tuning_var, package_var, all_var,   \* ModBuilderApp check boxes
    dirs, files,      \* disk: directories and files (path -> content) under the roots
    gen,              \* record of the last generate_mod run (inputs, snapshot, outcome)
    gen_count,        \* number of generate_mod runs so far
    nm,               \* naming-rule run: [name, is_folder, result, done]
    match_filename_var,  \* ModBuilderApp 'match file name' check box
    settings_window,  \* the SettingsWindow: its Tk variables while it is open
    sav               \* record of the last save_settings call (inputs and outcome)

vars == <<pc, settings_file, settings_bak, settings_data, nested, dialogs,
          folder_name_var, file_name_var, script_var, tuning_var, package_var,
          all_var, dirs, files, gen, gen_count, nm, match_filename_var,
          settings_window, sav>>

----------------------------------------------------------------------------
(* Bounds *)

\* a failing run fails at one of its first MaxFault filesystem calls (the largest run
\* makes 15: five directories, five files, five backup copies)
MaxFault == 15

\* largest number of save_settings calls while the settings window is in use
MaxSaves == 2

\* largest number of top-level keys of a persisted settings file drawn in InitLoad
MaxFileKeys == 2

\* largest number of generate_mod runs explored in one behaviour
MaxGenerations == 2

\* longest name drawn in InitNaming
MaxNameLen == 3

----------------------------------------------------------------------------
(* Dict values *)

ABSENT == "<absent>"

SchemaKeys ==
    {"main_mods_folder", "generated_mods_enabled", "temp_mod_timer", "naming_rules",
     "show_open_location_prompt", "show_save_success", "backup_options",
     "init_py_in_scripts"}

\* a top-level key no schema version of DEFAULT_SETTINGS knows
UnknownKeys == {"legacy_option"}

TopKeys == SchemaKeys \cup UnknownKeys

\* the order in which a file's keys are iterated (JSON object order)
KeyOrder ==
    <<"main_mods_folder", "generated_mods_enabled", "temp_mod_timer", "naming_rules",
      "show_open_location_prompt", "show_save_success", "backup_options",
      "init_py_in_scripts", "legacy_option">>

NamingKeys == {"no_spaces_folders", "no_spaces_files", "convert_spaces_underscores"}
BackupKeys == {"always_backup"}
NestedKeys == NamingKeys \cup BackupKeys \cup {"extra_key"}

NoDict == [n \in NestedKeys |-> ABSENT]

Absent    == [k |-> "absent", s |-> "", d |-> NoDict]
Scalar(v) == [k |-> "s", s |-> v, d |-> NoDict]
Dict(m)   == [k |-> "d", s |-> "", d |-> m]
Ref(o)    == [k |-> "ref", s |-> o, d |-> NoDict]

\* the contents of the nested dict literals of DEFAULT_SETTINGS
DEFAULT_NESTED ==
    [naming_rules |->
        [n \in NestedKeys |-> IF n \in NamingKeys THEN "false" ELSE ABSENT],
     backup_options |->
        [n \in NestedKeys |-> IF n \in BackupKeys THEN "true" ELSE ABSENT]]

\* the top-level dict DEFAULT_SETTINGS; its nested values are the objects of `nested`
DEFAULT_SETTINGS ==
    [key \in TopKeys |->
        CASE key = "main_mods_folder"          -> Scalar("Mods")
          [] key = "generated_mods_enabled"    -> Scalar("false")
          [] key = "temp_mod_timer"            -> Scalar("Disabled")
          [] key = "naming_rules"              -> Ref("naming_rules")
          [] key = "show_open_location_prompt" -> Scalar("true")
          [] key = "show_save_success"         -> Scalar("true")
          [] key = "backup_options"            -> Ref("backup_options")
          [] key = "init_py_in_scripts"        -> Scalar("true")
          [] OTHER                             -> Absent]

\* dict.copy(): a new top-level dict holding the same values (shallow)
dict_copy(top) == [key \in TopKeys |-> top[key]]

\* isinstance(entry, dict)
isinstance_dict(entry) == entry.k \in {"d", "ref"}

\* the contents of the dict an entry holds or refers to, in heap h
Contents(entry, h) ==
    CASE entry.k = "ref" -> h[entry.s]
      [] entry.k = "d"   -> entry.d
      [] OTHER           -> NoDict

\* dict.update(other): the keys of other overwrite, the others stay
dict_update(target, other) ==
    [n \in NestedKeys |-> IF other[n] # ABSENT THEN other[n] ELSE target[n]]

\* a value with every reference replaced by the contents it refers to: what
\* reading settings_data[key][sub] sees, and what json.dump writes
Resolve(top, h) ==
    [key \in TopKeys |->
        IF top[key].k = "ref" THEN Dict(h[top[key].s]) ELSE top[key]]

\* bool(value) of a scalar
Truthy(v) == v \notin {"false", "null", "0", "", ABSENT}

----------------------------------------------------------------------------
(* Settings store: load_settings *)

\* a persisted file: st = "absent" (no file), "malformed" (json.load raises
\* JSONDecodeError), "unreadable" (open raises OSError), "nonobject" (valid JSON
\* that is not an object) or "json" (an object, its entries in top)
NoTop == [key \in TopKeys |-> Absent]
File(st) == [st |-> st, top |-> NoTop]
JsonFile(top) == [st |-> "json", top |-> top]

\* a plausible slip: every loaded value replaces the default (settings_data.update)
MergeKeyReplace(st, key, value) == [st EXCEPT !.sd[key] = value]

\* one iteration of the merge loop: `for key, value in loaded_settings.items()`
MergeKey(st, key, value) ==
    IF st.sd[key].k # "absent" /\ isinstance_dict(st.sd[key]) /\ isinstance_dict(value)
    THEN \* settings_data[key].update(value): in place, on the object the entry holds
         IF st.sd[key].k = "ref"
         THEN [st EXCEPT !.h[st.sd[key].s] = dict_update(@, value.d)]
         ELSE [st EXCEPT !.sd[key] = Dict(dict_update(@.d, value.d))]
    ELSE \* settings_data[key] = value
         [st EXCEPT !.sd[key] = value]

\* the merge loop over the keys of the loaded object, from the i-th on
RECURSIVE MergeLoop(_, _, _)
MergeLoop(st, loaded, i) ==
    IF i > Len(KeyOrder) THEN st
    ELSE LET key == KeyOrder[i] IN
         IF loaded[key].k = "absent"
         THEN MergeLoop(st, loaded, i + 1)
         ELSE MergeLoop(MergeKey(st, key, loaded[key]), loaded, i + 1)

CorruptNotice == "error: Settings file is corrupted. Resetting to defaults."
OperationFailed == "error: Operation failed"

\* a plausible slip: the except branch resets without telling the user
LoadCorruptSilent(h) ==
    [sd |-> dict_copy(DEFAULT_SETTINGS), h |-> h, dialogs |-> <<>>]

\* the `except (json.JSONDecodeError, OSError)` branch
LoadCorrupt(h) ==
    [sd |-> dict_copy(DEFAULT_SETTINGS), h |-> h, dialogs |-> <<CorruptNotice>>]

\* the body of the `with open(...)` block once json.load has returned an object
LoadMerge(loaded, h) ==
    LET st == MergeLoop([sd |-> dict_copy(DEFAULT_SETTINGS), h |-> h], loaded, 1)
    IN  [sd |-> st.sd, h |-> st.h, dialogs |-> <<>>]

\* load_settings() under @safe_operation, reading file f with heap h
LoadOutcome(f, h) ==
    CASE f.st = "absent" ->
            [sd |-> dict_copy(DEFAULT_SETTINGS), h |-> h, dialogs |-> <<>>]
      [] f.st \in {"malformed", "unreadable"} -> LoadCorrupt(h)
      [] f.st = "nonobject" ->
            \* settings_data is already the copy when .items() raises AttributeError,
            \* which only safe_operation catches
            [sd |-> dict_copy(DEFAULT_SETTINGS), h |-> h, dialogs |-> <<OperationFailed>>]
      [] OTHER -> LoadMerge(f.top, h)

----------------------------------------------------------------------------
(* Inputs: persisted settings files *)

Tri == {ABSENT, "true", "false"}

\* the nested dicts over the keys K
NestedChoices(K) == {m \in [NestedKeys -> Tri] : \A n \in NestedKeys \ K : m[n] = ABSENT}

\* the values a file may give a key
ValueChoices(key) ==
    CASE key = "naming_rules" ->
            {Scalar("5")} \cup {Dict(m) : m \in NestedChoices(NamingKeys \cup {"extra_key"})}
      [] key = "backup_options" ->
            {Scalar("null")} \cup {Dict(m) : m \in NestedChoices(BackupKeys \cup {"extra_key"})}
      [] key = "main_mods_folder" ->
            {Scalar("Mods2"), Dict([NoDict EXCEPT !["extra_key"] = "true"])}
      [] key = "temp_mod_timer" -> {Scalar("30")}
      [] key = "legacy_option" ->
            {Scalar("7"), Dict([NoDict EXCEPT !["extra_key"] = "false"])}
      [] OTHER -> {Scalar("true"), Scalar("false")}

\* the JSON objects that use keys from the i-th of KeyOrder on, at most budget of them
RECURSIVE FileTops(_, _)
FileTops(i, budget) ==
    IF i > Len(KeyOrder) THEN {NoTop}
    ELSE FileTops(i + 1, budget) \cup
         (IF budget = 0 THEN {}
          ELSE {[t EXCEPT ![KeyOrder[i]] = v] :
                    t \in FileTops(i + 1, budget - 1), v \in ValueChoices(KeyOrder[i])})

LoadFiles ==
    {File("absent"), File("malformed"), File("unreadable"), File("nonobject")}
        \cup {JsonFile(t) : t \in FileTops(1, MaxFileKeys)}

----------------------------------------------------------------------------
(* Naming Rule Engine *)

\* str.replace(" ", new): every space of text replaced by the text new
RECURSIVE replace_space(_, _)
replace_space(text, new) ==
    IF text = <<>> THEN <<>>
    ELSE (IF Head(text) = " " THEN new ELSE <<Head(text)>>) \o replace_space(Tail(text), new)

\* the three `if` statements of apply_naming_rules, reading the naming_rules dict rules
NamingRule3(name, rules) ==
    IF Truthy(rules["convert_spaces_underscores"]) THEN replace_space(name, <<"_">>) ELSE name

NamingRule2(name, is_folder, rules) ==
    IF Truthy(rules["no_spaces_files"]) /\ ~is_folder THEN replace_space(name, <<>>) ELSE name

NamingRule1(name, is_folder, rules) ==
    IF Truthy(rules["no_spaces_folders"]) /\ is_folder THEN replace_space(name, <<>>) ELSE name

\* a plausible slip: the underscore conversion runs before the stripping rules
NamingRulesConvertFirst(name, is_folder, rules) ==
    NamingRule2(NamingRule1(NamingRule3(name, rules), is_folder, rules), is_folder, rules)

NamingRules(name, is_folder, rules) ==
    NamingRule3(NamingRule2(NamingRule1(name, is_folder, rules), is_folder, rules), rules)

\* apply_naming_rules(name, is_folder) on settings sd with heap h: subscripting a
\* naming_rules value that is not a dict raises TypeError (ok = FALSE)
apply_naming_rules(name, is_folder, sd, h) ==
    IF isinstance_dict(sd["naming_rules"])
    THEN [ok |-> TRUE, name |-> NamingRules(name, is_folder, Contents(sd["naming_rules"], h))]
    ELSE [ok |-> FALSE, name |-> <<>>]

----------------------------------------------------------------------------
(* Texts and paths *)

\* str.strip(): surrounding spaces removed
RECURSIVE lstrip(_)
lstrip(text) == IF text # <<>> /\ Head(text) = " " THEN lstrip(Tail(text)) ELSE text

RECURSIVE rstrip(_)
rstrip(text) ==
    IF text # <<>> /\ text[Len(text)] = " " THEN rstrip(SubSeq(text, 1, Len(text) - 1)) ELSE text

strip(text) == rstrip(lstrip(text))

\* a path component: the text stem followed, when ext is not "", by "." and ext
Comp(stem, ext) == [stem |-> stem, ext |-> ext]

\* os.path.join(path, component)
join(path, comp) == Append(path, comp)

\* os.path.basename(path)
basename(path) == path[Len(path)]

\* path + "_Backup": the text is appended to the last component
add_suffix(path, chunk) == [path EXCEPT ![Len(path)].stem = @ \o <<chunk>>]

\* the directories os.makedirs(path) makes sure of
Prefixes(path) == {SubSeq(path, 1, i) : i \in 1..Len(path)}

Parent(path) == SubSeq(path, 1, Len(path) - 1)

----------------------------------------------------------------------------
(* File contents written by generate_mod *)

ModinfoData(name) == [kind |-> "modinfo", name |-> name]
InitData    == [kind |-> "init", name |-> <<>>]
ScriptData  == [kind |-> "script", name |-> <<>>]
TuningData  == [kind |-> "tuning", name |-> <<>>]
PackageData == [kind |-> "package", name |-> <<>>]

\* a file on disk: its data and the number of the generate_mod run that last wrote it
Stored(data, run) == [data |-> data, run |-> run]

Put(f, path, v) == [q \in DOMAIN f \cup {path} |-> IF q = path THEN v ELSE f[q]]

----------------------------------------------------------------------------
(* Filesystem operations of one generate_mod run.                           *)
(* g = [dirs, files, created, ops, raised, warned]: the disk, the local     *)
(* created_files list, the number of filesystem calls made so far, whether  *)
(* an exception is propagating, whether the backup warning was shown.       *)
(* c = [fault, run, ...]: fault is the number of the filesystem call that   *)
(* the operating system fails (0: none).                                    *)

NoFault == 0

\* a plausible slip: the exception is swallowed and the run goes on
RaiseSwallowed(g) == [g EXCEPT !.ops = @ + 1]

\* the call raises: every later step of the try block is skipped
Raise(g) == [g EXCEPT !.raised = TRUE, !.ops = @ + 1]

\* a plausible slip: os.makedirs(path) without exist_ok
makedirsNoExistOk(g, path, c) ==
    IF g.raised THEN g
    ELSE IF g.ops + 1 = c.fault \/ Prefixes(path) \cap DOMAIN g.files # {} \/ path \in g.dirs
    THEN Raise(g)
    ELSE [g EXCEPT !.dirs = @ \cup Prefixes(path), !.ops = @ + 1]

\* os.makedirs(path, exist_ok=True)
makedirs(g, path, c) ==
    IF g.raised THEN g
    ELSE IF g.ops + 1 = c.fault \/ Prefixes(path) \cap DOMAIN g.files # {}
    THEN Raise(g)
    ELSE [g EXCEPT !.dirs = @ \cup Prefixes(path), !.ops = @ + 1]

\* with open(path, "w") as f: f.write(data)   followed by   created_files.append(path)
write_and_record(g, path, data, c) ==
    IF g.raised THEN g
    ELSE IF g.ops + 1 = c.fault \/ path \in g.dirs \/ Parent(path) \notin g.dirs
    THEN Raise(g)
    ELSE [g EXCEPT !.files = Put(@, path, Stored(data, c.run)),
                   !.created = Append(@, path),
                   !.ops = @ + 1]

\* shutil.copyfile(src, dst)
copyfile(g, src, dst, c) ==
    IF g.raised THEN g
    ELSE IF \/ g.ops + 1 = c.fault
            \/ src \notin DOMAIN g.files
            \/ dst \in g.dirs
            \/ Parent(dst) \notin g.dirs
    THEN Raise(g)
    ELSE [g EXCEPT !.files = Put(@, dst, Stored(g.files[src].data, c.run)), !.ops = @ + 1]

\* settings_data.get(key, True), as a truth value
get_flag(sd, h, key) ==
    CASE sd[key].k = "absent" -> TRUE
      [] sd[key].k = "s"      -> Truthy(sd[key].s)
      [] OTHER                -> \E n \in NestedKeys : Contents(sd[key], h)[n] # ABSENT

ScriptsDir(c) == join(c.full, Comp(<<"Scripts">>, ""))
TuningDir(c)  == join(c.full, Comp(<<"Tuning">>, ""))

InitPyPath(c) ==
    IF get_flag(c.sd, c.h, "init_py_in_scripts")
    THEN join(ScriptsDir(c), Comp(<<"__init__">>, "py"))
    ELSE join(c.full, Comp(<<"__init__">>, "py"))

create_init_py(g, c) ==
    LET g1 == IF get_flag(c.sd, c.h, "init_py_in_scripts")
              THEN makedirs(g, ScriptsDir(c), c) ELSE g
    IN  write_and_record(g1, InitPyPath(c), InitData, c)

create_modinfo_py(g, c) ==
    write_and_record(g, join(c.full, Comp(<<"modinfo">>, "py")), ModinfoData(c.cleaned_file_name), c)

create_script(g, c) ==
    LET script_file_name == apply_naming_rules(c.file_name, FALSE, c.sd, c.h).name
    IN  write_and_record(makedirs(g, ScriptsDir(c), c),
                         join(ScriptsDir(c), Comp(script_file_name, "py")), ScriptData, c)

create_tuning(g, c) ==
    LET tuning_file_name == apply_naming_rules(c.file_name, FALSE, c.sd, c.h).name
    IN  write_and_record(makedirs(g, TuningDir(c), c),
                         join(TuningDir(c), Comp(tuning_file_name, "xml")), TuningData, c)

create_package(g, c) ==
    LET package_file_name == apply_naming_rules(c.file_name, FALSE, c.sd, c.h).name
    IN  write_and_record(g, join(c.full, Comp(package_file_name, "package")), PackageData, c)

\* a plausible slip: the marker is created only for a script selection
NeedsInitPyScriptOnly(c) == c.all \/ c.script

\* the condition of line 956
NeedsInitPy(c) == c.all \/ c.script \/ get_flag(c.sd, c.h, "init_py_in_scripts")

\* a plausible slip: 'all' forgets the tuning file
CreateSelectedAllForgetsTuning(g, c) ==
    IF c.all
    THEN create_package(create_script(g, c), c)
    ELSE LET g1 == IF c.script THEN create_script(g, c) ELSE g
             g2 == IF c.tuning THEN create_tuning(g1, c) ELSE g1
         IN  IF c.package THEN create_package(g2, c) ELSE g2

\* a plausible slip: the `if self.all_var.get()` branch is missing
CreateSelectedIgnoresAll(g, c) ==
    LET g1 == IF c.script THEN create_script(g, c) ELSE g
        g2 == IF c.tuning THEN create_tuning(g1, c) ELSE g1
    IN  IF c.package THEN create_package(g2, c) ELSE g2

\* lines 959-969
CreateSelected(g, c) ==
    IF c.all
    THEN create_package(create_tuning(create_script(g, c), c), c)
    ELSE LET g1 == IF c.script THEN create_script(g, c) ELSE g
             g2 == IF c.tuning THEN create_tuning(g1, c) ELSE g1
         IN  IF c.package THEN create_package(g2, c) ELSE g2

\* lines 954-969
CreateFiles(g, c) ==
    LET g1 == create_modinfo_py(g, c)
        g2 == IF NeedsInitPy(c) THEN create_init_py(g1, c) ELSE g1
    IN  CreateSelected(g2, c)

\* the loop `for fpath in created_files`, from its i-th element on
RECURSIVE CopyLoop(_, _, _, _)
CopyLoop(g, i, backup_folder, c) ==
    IF i > Len(g.created) THEN g
    ELSE CopyLoop(copyfile(g, g.created[i], join(backup_folder, basename(g.created[i])), c),
                  i + 1, backup_folder, c)

\* lines 975-980, the body of the try
BackupBody(g, c) ==
    LET backup_folder == add_suffix(c.full, "_Backup")
    IN  CopyLoop(makedirs(g, backup_folder, c), 1, backup_folder, c)

\* a plausible slip: the backup has no handler of its own
BackupPropagates(g, c) == BackupBody(g, c)

\* lines 973-984: an exception of the body becomes a warning
Backup(g, c) ==
    LET g1 == BackupBody(g, c)
    IN  IF g1.raised THEN [g1 EXCEPT !.raised = FALSE, !.warned = TRUE] ELSE g1

NoFolderName == "error: No Folder Name specified."
NoFileName == "error: No File Name specified."
NoFilesCreated == "info: No file type selected. No files created."
BackupWarning == "warning: Could not create backup"

\* the result of generate_mod: result is "missing_name" (an early return), "error" (an
\* exception reached safe_operation), "noop" (the return of line 991) or "done"
GenOutcome(result, shown, g, prompt, folder, file, full) ==
    [result |-> result,
     dialogs |-> shown \o (IF g.warned THEN <<BackupWarning>> ELSE <<>>)
                       \o (IF result = "error" THEN <<OperationFailed>> ELSE <<>>),
     dirs |-> g.dirs, files |-> g.files, created |-> g.created, warned |-> g.warned,
     prompt |-> prompt, folder |-> folder, file |-> file, full |-> full]

\* lines 971-995, once the files are created
AfterCreate(g, c) ==
    IF g.raised \/ ~isinstance_dict(c.sd["backup_options"])
    THEN GenOutcome("error", <<>>, [g EXCEPT !.raised = TRUE], FALSE,
                    c.cleaned_folder_name, c.cleaned_file_name, c.full)
    ELSE LET bo == Contents(c.sd["backup_options"], c.h)
             backup_always == IF bo["always_backup"] = ABSENT THEN TRUE
                              ELSE Truthy(bo["always_backup"])
             g1 == IF backup_always THEN Backup(g, c) ELSE g
         IN  IF g1.created = <<>>
             THEN GenOutcome("noop", <<NoFilesCreated>>, g1, FALSE,
                             c.cleaned_folder_name, c.cleaned_file_name, c.full)
             ELSE GenOutcome("done", <<>>, g1,
                             get_flag(c.sd, c.h, "show_open_location_prompt"),
                             c.cleaned_folder_name, c.cleaned_file_name, c.full)

\* a plausible slip: only the folder name is checked
NameCheckFolderOnly(folder_name, file_name) ==
    IF folder_name = <<>> THEN NoFolderName ELSE ""

\* lines 850-855: the error shown for a missing name, "" when both are given
NameCheck(folder_name, file_name) ==
    IF folder_name = <<>> THEN NoFolderName
    ELSE IF file_name = <<>> THEN NoFileName
    ELSE ""

\* generate_mod under @safe_operation.  inp = [folder, file: the entry texts; script,
\* tuning, package, all: the check boxes; sd, h: the settings; dirs, files: the disk;
\* fault: the failing filesystem call; run: the number of this run]
generate_mod(inp) ==
    LET folder_name == strip(inp.folder)
        file_name   == strip(inp.file)
        g0 == [dirs |-> inp.dirs, files |-> inp.files, created |-> <<>>, ops |-> 0,
               raised |-> FALSE, warned |-> FALSE]
    IN  IF NameCheck(folder_name, file_name) # ""
        THEN GenOutcome("missing_name", <<NameCheck(folder_name, file_name)>>, g0, FALSE,
                        <<>>, <<>>, <<>>)
        ELSE LET cf == apply_naming_rules(folder_name, TRUE, inp.sd, inp.h)
                 cn == apply_naming_rules(file_name, FALSE, inp.sd, inp.h)
             IN  IF ~cf.ok \/ ~cn.ok \/ inp.sd["main_mods_folder"].k # "s"
                 THEN \* TypeError before the first filesystem call
                      GenOutcome("error", <<>>, g0, FALSE, <<>>, <<>>, <<>>)
                 ELSE LET full == join(<<Comp(<<inp.sd["main_mods_folder"].s>>, "")>>,
                                       Comp(cf.name, ""))
                          c == [fault |-> inp.fault, run |-> inp.run, sd |-> inp.sd,
                                h |-> inp.h, full |-> full, file_name |-> file_name,
                                cleaned_folder_name |-> cf.name,
                                cleaned_file_name |-> cn.name,
                                script |-> inp.script, tuning |-> inp.tuning,
                                package |-> inp.package, all |-> inp.all]
                      IN  AfterCreate(CreateFiles(makedirs(g0, full, c), c), c)

----------------------------------------------------------------------------
(* Actions *)

NoGen == [ran |-> FALSE]
NoWindow == [is_open |-> FALSE]
NoSave == [ran |-> FALSE, n |-> 0]
NoNaming == [name |-> <<>>, is_folder |-> FALSE, result |-> <<>>, done |-> FALSE]

\* ModBuilderApp.__init__ / create_variables: the window's variables, nothing run yet
InitApp ==
    /\ dialogs = <<>>
    /\ folder_name_var = <<>>
    /\ file_name_var = <<>>
    /\ script_var = FALSE
    /\ tuning_var = FALSE
    /\ package_var = FALSE
    /\ all_var = FALSE
    /\ match_filename_var = FALSE
    /\ gen = NoGen
    /\ gen_count = 0
    /\ settings_window = NoWindow
    /\ sav = NoSave

\* module import: settings_data = DEFAULT_SETTINGS.copy()
InitMemory ==
    /\ pc = "start"
    /\ settings_data = dict_copy(DEFAULT_SETTINGS)
    /\ nested = DEFAULT_NESTED
    /\ InitApp
    /\ nm = NoNaming

EmptyDisk ==
    /\ settings_bak = File("absent")
    /\ dirs = {}
    /\ files = [p \in {} |-> ""]

\* __main__: load_settings() before the application is created
load_settings ==
    /\ pc = "start"
    /\ LET out == LoadOutcome(settings_file, nested) IN
         /\ settings_data' = out.sd
         /\ nested' = out.h
         /\ dialogs' = out.dialogs
    /\ pc' = "main"
    /\ UNCHANGED <<settings_file, settings_bak, folder_name_var, file_name_var,
                   script_var, tuning_var, package_var, all_var, dirs, files, gen,
                   gen_count, nm, match_filename_var, settings_window, sav>>

----------------------------------------------------------------------------
(* Settings store: save_settings *)

\* what the operating system may fail in one save_settings call: nothing, the copy to
\* the .bak (shutil.copy2 raises), the opening of the file for writing (open raises),
\* or the writing itself (json.dump raises, the file is left truncated)
SaveFaults == {"none", "copy", "write", "dump"}

\* save_settings() under @safe_operation: the .bak copy when a file exists, then the
\* write; every exception is re-raised to the decorator, which reports it and returns
save_settings(sd, h, file, bak, fault) ==
    IF file.st # "absent" /\ (fault = "copy" \/ file.st = "unreadable")
    THEN [file |-> file, bak |-> bak, ok |-> FALSE, dialogs |-> <<OperationFailed>>]
    ELSE LET bak1 == IF file.st # "absent" THEN file ELSE bak IN
         CASE fault = "write" ->
                [file |-> file, bak |-> bak1, ok |-> FALSE, dialogs |-> <<OperationFailed>>]
           [] fault = "dump" ->
                [file |-> File("malformed"), bak |-> bak1, ok |-> FALSE,
                 dialogs |-> <<OperationFailed>>]
           [] OTHER ->
                [file |-> JsonFile(Resolve(sd, h)), bak |-> bak1, ok |-> TRUE,
                 dialogs |-> <<>>]

\* the record of a save_settings call made by handler `by` with the memory (sd, h), on
\* the files of the current state
SaveRecord(by, sd, h, fault, out) ==
    [ran |-> TRUE, n |-> sav.n + 1, by |-> by, fault |-> fault, ok |-> out.ok,
     file |-> settings_file, bak |-> settings_bak, memory |-> Resolve(sd, h)]

----------------------------------------------------------------------------
(* Inputs of the main window *)

\* a settings file that sets the three naming flags
NamingFile(f1, f2, f3) ==
    JsonFile([NoTop EXCEPT !["naming_rules"] =
        Dict([n \in NestedKeys |->
            CASE n = "no_spaces_folders"          -> f1
              [] n = "no_spaces_files"            -> f2
              [] n = "convert_spaces_underscores" -> f3
              [] OTHER                            -> ABSENT])])

Bools == {"true", "false"}

FolderNameInputs == {<<>>, <<" ">>, <<"m", " ", "d">>, <<" ", "m", " ">>}
FileNameInputs == {<<>>, <<" ">>, <<"f", " ", "x">>, <<"modinfo">>, <<"__init__">>}

\* a settings file that sets the naming flags, always_backup and init_py_in_scripts
GenFile(f1, f2, f3, b, i) ==
    JsonFile([NamingFile(f1, f2, f3).top EXCEPT
                !["backup_options"] = Dict([NoDict EXCEPT !["always_backup"] = b]),
                !["init_py_in_scripts"] = Scalar(i)])

GenFiles ==
    {File("absent"),
     JsonFile([NoTop EXCEPT !["naming_rules"] = Scalar("5")]),
     JsonFile([NoTop EXCEPT !["backup_options"] = Scalar("null")])}
        \cup {GenFile(f1, f2, f3, b, i) :
                f1 \in Bools, f2 \in Bools, f3 \in Bools, b \in Bools, i \in Bools}

----------------------------------------------------------------------------
(* Actions of the main window.  The entries and check boxes are edited before  *)
(* the first Generate; later runs repeat the request (the bound MaxGenerations *)
(* caps them).  self.syncing is False between handlers: it is set only around  *)
(* the nested set() of a trace, whose own trace then returns at once.          *)

Editing == pc = "main" /\ gen_count = 0

\* typing in the folder entry; the trace on_folder_name_change copies the text
\* to the file name when 'match file name' is ticked
SetFolderName ==
    /\ Editing
    /\ \E t \in FolderNameInputs : folder_name_var' = t
    /\ file_name_var' = IF match_filename_var THEN folder_name_var' ELSE file_name_var
    /\ UNCHANGED <<pc, settings_file, settings_bak, settings_data, nested, dialogs,
                   script_var, tuning_var, package_var, all_var, dirs,
                   files, gen, gen_count, nm, match_filename_var, settings_window, sav>>

\* typing in the file entry; the trace on_file_name_change copies the text to
\* the folder name when 'match file name' is ticked
SetFileName ==
    /\ Editing
    /\ \E t \in FileNameInputs : file_name_var' = t
    /\ folder_name_var' = IF match_filename_var THEN file_name_var' ELSE folder_name_var
    /\ UNCHANGED <<pc, settings_file, settings_bak, settings_data, nested, dialogs,
                   script_var, tuning_var, package_var, all_var, dirs,
                   files, gen, gen_count, nm, match_filename_var, settings_window, sav>>

\* the 'match file name' check box: ticking copies the folder name to the file
\* name, unticking clears the file name
on_match_filename_toggle ==
    /\ Editing
    /\ match_filename_var' = ~match_filename_var
    /\ file_name_var' = IF match_filename_var' THEN folder_name_var ELSE <<>>
    /\ UNCHANGED <<pc, settings_file, settings_bak, settings_data, nested, dialogs,
                   folder_name_var, script_var, tuning_var, package_var, all_var,
                   dirs, files, gen, gen_count, nm, settings_window, sav>>

ToggleScript ==
    /\ Editing
    /\ script_var' = ~script_var
    /\ UNCHANGED <<pc, settings_file, settings_bak, settings_data, nested, dialogs,
                   folder_name_var, file_name_var, tuning_var, package_var, all_var,
                   dirs, files, gen, gen_count, nm, match_filename_var,
                   settings_window, sav>>

ToggleTuning ==
    /\ Editing
    /\ tuning_var' = ~tuning_var
    /\ UNCHANGED <<pc, settings_file, settings_bak, settings_data, nested, dialogs,
                   folder_name_var, file_name_var, script_var, package_var, all_var,
                   dirs, files, gen, gen_count, nm, match_filename_var,
                   settings_window, sav>>

TogglePackage ==
    /\ Editing
    /\ package_var' = ~package_var
    /\ UNCHANGED <<pc, settings_file, settings_bak, settings_data, nested, dialogs,
                   folder_name_var, file_name_var, script_var, tuning_var, all_var,
                   dirs, files, gen, gen_count, nm, match_filename_var,
                   settings_window, sav>>

\* a plausible slip: the trace only sets the three boxes and never clears them
on_all_toggleSetsOnly ==
    /\ Editing
    /\ all_var' = ~all_var
    /\ script_var' = (all_var' \/ script_var)
    /\ tuning_var' = (all_var' \/ tuning_var)
    /\ package_var' = (all_var' \/ package_var)
    /\ UNCHANGED <<pc, settings_file, settings_bak, settings_data, nested, dialogs,
                   folder_name_var, file_name_var, dirs, files, gen, gen_count, nm,
                   match_filename_var, settings_window, sav>>

\* the All check box: the write of all_var runs the trace on_all_toggle
on_all_toggle ==
    /\ Editing
    /\ all_var' = ~all_var
    /\ script_var' = all_var'
    /\ tuning_var' = all_var'
    /\ package_var' = all_var'
    /\ UNCHANGED <<pc, settings_file, settings_bak, settings_data, nested, dialogs,
                   folder_name_var, file_name_var, dirs, files, gen, gen_count, nm,
                   match_filename_var, settings_window, sav>>

\* the Generate Mod button; the operating system fails the filesystem call number
\* fault of the run (NoFault: none)
Generate(fault) ==
    /\ pc = "main"
    /\ gen_count < MaxGenerations
    /\ LET inp == [folder |-> folder_name_var, file |-> file_name_var,
                   script |-> script_var, tuning |-> tuning_var,
                   package |-> package_var, all |-> all_var,
                   sd |-> settings_data, h |-> nested, dirs |-> dirs, files |-> files,
                   fault |-> fault, run |-> gen_count + 1]
           out == generate_mod(inp)
       IN  /\ dirs' = out.dirs
           /\ files' = out.files
           /\ dialogs' = out.dialogs
           /\ gen' = [ran |-> TRUE, inp |-> inp, out |-> out,
                       prev |-> IF gen.ran
                                THEN [ran |-> TRUE, inp |-> gen.inp, out |-> gen.out]
                                ELSE NoGen]
           /\ pc' = IF out.prompt THEN "prompt" ELSE "main"
    /\ gen_count' = gen_count + 1
    /\ UNCHANGED <<settings_file, settings_bak, settings_data, nested, folder_name_var,
                   file_name_var, script_var, tuning_var, package_var, all_var, nm,
                   match_filename_var, settings_window, sav>>

\* the Generate Mod button, with no filesystem call failing
GenerateMod == Generate(NoFault)

\* the Generate Mod button, pressed once, with a filesystem call failing
GenerateModFault == gen_count = 0 /\ \E fault \in 1..MaxFault : Generate(fault)

CouldNotOpen == "error: Could not open folder"

\* close_prompt(window, save_setting), after the dialogs shown so far
close_prompt(save_setting, shown, fault) ==
    /\ pc = "prompt"
    /\ pc' = "main"
    /\ IF save_setting
       THEN LET sd == [settings_data EXCEPT !["show_open_location_prompt"] = Scalar("false")]
                out == save_settings(sd, nested, settings_file, settings_bak, fault)
            IN  /\ settings_data' = sd
                /\ settings_file' = out.file
                /\ settings_bak' = out.bak
                /\ dialogs' = shown \o out.dialogs
                /\ sav' = SaveRecord("close_prompt", sd, nested, fault, out)
       ELSE /\ dialogs' = shown
            /\ UNCHANGED <<settings_data, settings_file, settings_bak, sav>>
    /\ UNCHANGED <<nested, folder_name_var, file_name_var, script_var, tuning_var,
                   package_var, all_var, dirs, files, gen, gen_count, nm,
                   match_filename_var, settings_window>>

\* the prompt's Yes button: os.startfile opens the folder or fails
on_yes ==
    \E dont_show_again \in BOOLEAN, opened \in BOOLEAN :
        close_prompt(dont_show_again, IF opened THEN <<>> ELSE <<CouldNotOpen>>, "none")

\* the prompt's No button
on_no == \E dont_show_again \in BOOLEAN : close_prompt(dont_show_again, <<>>, "none")

\* the prompt's close button (WM_DELETE_WINDOW)
on_prompt_delete == close_prompt(FALSE, <<>>, "none")

----------------------------------------------------------------------------
(* The settings window.  It is modal: while it is open (pc = "settings") the     *)
(* main window takes no input, and while its success prompt shows               *)
(* (pc = "save_prompt") save_settings_local waits in wait_window.  The user     *)
(* edits the folder entry and one check box of the naming rules; the other     *)
(* variables keep the values create_variables gave them.                        *)

\* tk.BooleanVar(value=v).get()
BooleanVar(v) == IF Truthy(v) THEN "true" ELSE "false"

\* tk.StringVar(value=entry).get()
StringVar(entry) == IF entry.k = "s" THEN entry.s ELSE "{}"

\* create_variables raises (TypeError, KeyError) when a nested mapping or one of its
\* keys is missing from settings_data
CanCreateVariables(sd, h) ==
    /\ isinstance_dict(sd["naming_rules"])
    /\ \A n \in NamingKeys : Contents(sd["naming_rules"], h)[n] # ABSENT
    /\ isinstance_dict(sd["backup_options"])
    /\ \A n \in BackupKeys : Contents(sd["backup_options"], h)[n] # ABSENT
    /\ \A key \in {"generated_mods_enabled", "temp_mod_timer", "main_mods_folder",
                    "init_py_in_scripts"} : sd[key].k # "absent"

\* SettingsWindow.create_variables
create_variables(sd, h) ==
    [is_open |-> TRUE,
     generated_mods_var |-> BooleanVar(sd["generated_mods_enabled"].s),
     temp_mod_timer_var |-> StringVar(sd["temp_mod_timer"]),
     main_mods_folder_var |-> StringVar(sd["main_mods_folder"]),
     no_spaces_folders_var |->
        BooleanVar(Contents(sd["naming_rules"], h)["no_spaces_folders"]),
     no_spaces_files_var |->
        BooleanVar(Contents(sd["naming_rules"], h)["no_spaces_files"]),
     convert_spaces_underscores_var |->
        BooleanVar(Contents(sd["naming_rules"], h)["convert_spaces_underscores"]),
     always_backup_var |-> BooleanVar(Contents(sd["backup_options"], h)["always_backup"]),
     init_py_in_scripts_var |-> BooleanVar(sd["init_py_in_scripts"].s)]

\* the Settings button: ModBuilderApp.open_settings under @safe_operation
open_settings ==
    /\ pc = "main"
    /\ IF CanCreateVariables(settings_data, nested)
       THEN /\ settings_window' = create_variables(settings_data, nested)
            /\ pc' = "settings"
            /\ dialogs' = <<>>
       ELSE /\ dialogs' = <<OperationFailed>>
            /\ UNCHANGED <<pc, settings_window>>
    /\ UNCHANGED <<settings_file, settings_bak, settings_data, nested, folder_name_var,
                   file_name_var, script_var, tuning_var, package_var, all_var, dirs,
                   files, gen, gen_count, nm, match_filename_var, sav>>

ModsFolderInputs == {"Mods", "Alt"}

Negated(v) == IF v = "true" THEN "false" ELSE "true"

\* a plausible slip: the edit is stored into settings_data at once (a trace on the
\* window's variables)
EditSettingsWritesThrough(w) ==
    /\ pc = "settings"
    /\ settings_window' = w
    /\ settings_data' = [settings_data EXCEPT
                            !["main_mods_folder"] = Scalar(w.main_mods_folder_var)]
    /\ nested' = [nested EXCEPT
                    !["naming_rules"]["no_spaces_folders"] = w.no_spaces_folders_var]
    /\ UNCHANGED <<pc, settings_file, settings_bak, dialogs, folder_name_var,
                   file_name_var, script_var, tuning_var, package_var, all_var, dirs,
                   files, gen, gen_count, nm, match_filename_var, sav>>

\* an edit of the settings window: only the window's variable changes
EditSettings(w) ==
    /\ pc = "settings"
    /\ settings_window' = w
    /\ UNCHANGED <<pc, settings_file, settings_bak, settings_data, nested, dialogs,
                   folder_name_var, file_name_var, script_var, tuning_var, package_var,
                   all_var, dirs, files, gen, gen_count, nm, match_filename_var, sav>>

SetMainModsFolder ==
    \E t \in ModsFolderInputs :
        EditSettings([settings_window EXCEPT !.main_mods_folder_var = t])

ToggleNoSpacesFolders ==
    EditSettings([settings_window EXCEPT !.no_spaces_folders_var = Negated(@)])

\* SettingsWindow.on_closing: the Back button and the window's close button
on_closing ==
    /\ pc = "settings"
    /\ pc' = "main"
    /\ settings_window' = NoWindow
    /\ UNCHANGED <<settings_file, settings_bak, settings_data, nested, dialogs,
                   folder_name_var, file_name_var, script_var, tuning_var, package_var,
                   all_var, dirs, files, gen, gen_count, nm, match_filename_var, sav>>

\* settings_data[key][n] = v
set_item(st, key, n, v) ==
    IF st.sd[key].k = "ref"
    THEN [st EXCEPT !.h[st.sd[key].s][n] = v]
    ELSE [st EXCEPT !.sd[key].d[n] = v]

\* lines 441-452: the window's variables are stored into settings_data
store_variables(sd, h, w) ==
    LET st0 == [sd |-> [sd EXCEPT
                    !["generated_mods_enabled"] = Scalar(w.generated_mods_var),
                    !["temp_mod_timer"] = Scalar(w.temp_mod_timer_var),
                    !["main_mods_folder"] = Scalar(w.main_mods_folder_var)],
                h |-> h]
        st1 == set_item(st0, "naming_rules", "no_spaces_folders", w.no_spaces_folders_var)
        st2 == set_item(st1, "naming_rules", "no_spaces_files", w.no_spaces_files_var)
        st3 == set_item(st2, "naming_rules", "convert_spaces_underscores",
                        w.convert_spaces_underscores_var)
        st4 == set_item(st3, "backup_options", "always_backup", w.always_backup_var)
    IN  [st4 EXCEPT !.sd["init_py_in_scripts"] = Scalar(w.init_py_in_scripts_var)]

SavedSuccessfully == "info: Settings saved successfully."

\* the Save Settings button: SettingsWindow.save_settings_local under @safe_operation,
\* up to wait_window of the success prompt, or to its end when the prompt is disabled
save_settings_local ==
    /\ pc = "settings"
    /\ sav.n < MaxSaves
    /\ \E fault \in SaveFaults :
         LET st == store_variables(settings_data, nested, settings_window)
             out == save_settings(st.sd, st.h, settings_file, settings_bak, fault)
             prompt == get_flag(st.sd, st.h, "show_save_success")
         IN  /\ settings_data' = st.sd
             /\ nested' = st.h
             /\ settings_file' = out.file
             /\ settings_bak' = out.bak
             /\ sav' = SaveRecord("save_settings_local", st.sd, st.h, fault, out)
             /\ dialogs' = out.dialogs \o (IF prompt THEN <<SavedSuccessfully>> ELSE <<>>)
             /\ pc' = IF prompt THEN "save_prompt" ELSE "main"
             /\ settings_window' = IF prompt THEN settings_window ELSE NoWindow
    /\ UNCHANGED <<folder_name_var, file_name_var, script_var, tuning_var, package_var,
                   all_var, dirs, files, gen, gen_count, nm, match_filename_var>>

\* close_save_prompt(window, save_setting), then the rest of save_settings_local:
\* self.on_closing()
close_save_prompt(save_setting, fault) ==
    /\ pc = "save_prompt"
    /\ pc' = "main"
    /\ settings_window' = NoWindow
    /\ IF save_setting
       THEN LET sd == [settings_data EXCEPT !["show_save_success"] = Scalar("false")]
                out == save_settings(sd, nested, settings_file, settings_bak, fault)
            IN  /\ settings_data' = sd
                /\ settings_file' = out.file
                /\ settings_bak' = out.bak
                /\ dialogs' = out.dialogs
                /\ sav' = SaveRecord("close_save_prompt", sd, nested, fault, out)
       ELSE /\ dialogs' = <<>>
            /\ UNCHANGED <<settings_data, settings_file, settings_bak, sav>>
    /\ UNCHANGED <<nested, folder_name_var, file_name_var, script_var, tuning_var,
                   package_var, all_var, dirs, files, gen, gen_count, nm,
                   match_filename_var>>

\* the success prompt's OK button
on_ok ==
    \E dont_show_again \in BOOLEAN, fault \in SaveFaults :
        /\ dont_show_again \/ fault = "none"
        /\ dont_show_again => sav.n < MaxSaves
        /\ close_save_prompt(dont_show_again, fault)

\* the success prompt's close button (WM_DELETE_WINDOW)
on_save_prompt_delete == close_save_prompt(FALSE, "none")

\* the open-location prompt's No button, with a save that may fail
on_no_save ==
    \E dont_show_again \in BOOLEAN, fault \in SaveFaults :
        /\ dont_show_again \/ fault = "none"
        /\ dont_show_again => sav.n < MaxSaves
        /\ close_prompt(dont_show_again, <<>>, fault)

\* the Generate Mod button, pressed once, with no filesystem call failing
GenerateOnce == gen_count = 0 /\ Generate(NoFault)

Init ==
    /\ InitMemory
    /\ EmptyDisk
    /\ settings_file \in GenFiles

Next ==
    \/ load_settings
    \/ SetFolderName
    \/ SetFileName
    \/ ToggleScript
    \/ ToggleTuning
    \/ TogglePackage
    \/ on_all_toggle
    \/ on_match_filename_toggle
    \/ GenerateMod
    \/ on_yes
    \/ on_no
    \/ on_prompt_delete

Spec == Init /\ [][Next]_vars

InitLoad ==
    /\ InitMemory
    /\ EmptyDisk
    /\ settings_file \in LoadFiles

NextLoad == load_settings

SpecLoad == InitLoad /\ [][NextLoad]_vars

----------------------------------------------------------------------------
(* Naming rules as a function of its inputs *)

NameChars == {" ", "a", "_"}

RECURSIVE TextsUpTo(_)
TextsUpTo(n) ==
    IF n = 0 THEN {<<>>}
    ELSE LET shorter == TextsUpTo(n - 1) IN
         shorter \cup {Append(t, c) : t \in shorter, c \in NameChars}

\* the application after load_settings() has read a file with some naming flags
Loaded(f) ==
    /\ InitApp
    /\ EmptyDisk
    /\ pc = "main"
    /\ settings_file = f
    /\ settings_data = LoadOutcome(f, DEFAULT_NESTED).sd
    /\ nested = LoadOutcome(f, DEFAULT_NESTED).h

InitNaming ==
    /\ \E f1 \in Bools, f2 \in Bools, f3 \in Bools : Loaded(NamingFile(f1, f2, f3))
    /\ nm \in {[name |-> t, is_folder |-> b, result |-> <<>>, done |-> FALSE] :
                    t \in TextsUpTo(MaxNameLen), b \in BOOLEAN}

\* a call apply_naming_rules(nm.name, nm.is_folder)
ApplyNamingRules ==
    /\ pc = "main"
    /\ ~nm.done
    /\ apply_naming_rules(nm.name, nm.is_folder, settings_data, nested).ok
    /\ nm' = [nm EXCEPT
                !.result = apply_naming_rules(nm.name, nm.is_folder, settings_data, nested).name,
                !.done = TRUE]
    /\ UNCHANGED <<pc, settings_file, settings_bak, settings_data, nested, dialogs,
                   folder_name_var, file_name_var, script_var, tuning_var, package_var,
                   all_var, dirs, files, gen, gen_count, match_filename_var,
                   settings_window, sav>>

NextNaming == ApplyNamingRules

SpecNaming == InitNaming /\ [][NextNaming]_vars

----------------------------------------------------------------------------
(* Generation with a failing filesystem call *)

FaultFiles ==
    {File("absent")} \cup {GenFile("false", "false", "true", b, i) : b \in Bools, i \in Bools}

FaultFolderNames == {<<"m", " ", "d">>, <<" ", "m", " ">>}
FaultFileNames == {<<"f", " ", "x">>, <<"__init__">>}

\* the main window after load_settings() read a file and the user typed the names and
\* set the check boxes
InitFault ==
    /\ pc = "main"
    /\ \E f \in FaultFiles :
          /\ settings_file = f
          /\ settings_data = LoadOutcome(f, DEFAULT_NESTED).sd
          /\ nested = LoadOutcome(f, DEFAULT_NESTED).h
          /\ dialogs = LoadOutcome(f, DEFAULT_NESTED).dialogs
    /\ EmptyDisk
    /\ folder_name_var \in FaultFolderNames
    /\ file_name_var \in FaultFileNames
    /\ script_var \in BOOLEAN
    /\ tuning_var \in BOOLEAN
    /\ package_var \in BOOLEAN
    /\ all_var \in BOOLEAN
    /\ match_filename_var = FALSE
    /\ gen = NoGen
    /\ gen_count = 0
    /\ nm = NoNaming
    /\ settings_window = NoWindow
    /\ sav = NoSave

NextFault == GenerateModFault

SpecFault == InitFault /\ [][NextFault]_vars

----------------------------------------------------------------------------
(* The settings window, saves that may fail, and generation *)

SettingsFiles ==
    {File("absent"),
     File("malformed"),
     JsonFile([NoTop EXCEPT !["show_save_success"] = Scalar("false")]),
     JsonFile([NoTop EXCEPT
        !["naming_rules"] = Dict([NoDict EXCEPT !["no_spaces_folders"] = "true"]),
        !["legacy_option"] = Scalar("1")]),
     JsonFile([NoTop EXCEPT !["naming_rules"] = Scalar("5")])}

\* the main window after load_settings() read a file and the user typed two names
InitSettings ==
    /\ pc = "main"
    /\ \E f \in SettingsFiles :
          /\ settings_file = f
          /\ settings_data = LoadOutcome(f, DEFAULT_NESTED).sd
          /\ nested = LoadOutcome(f, DEFAULT_NESTED).h
          /\ dialogs = LoadOutcome(f, DEFAULT_NESTED).dialogs
    /\ EmptyDisk
    /\ folder_name_var = <<"m", " ", "d">>
    /\ file_name_var = <<"f", " ", "x">>
    /\ script_var = FALSE
    /\ tuning_var = FALSE
    /\ package_var = FALSE
    /\ all_var = FALSE
    /\ match_filename_var = FALSE
    /\ gen = NoGen
    /\ gen_count = 0
    /\ nm = NoNaming
    /\ settings_window = NoWindow
    /\ sav = NoSave

NextSettings ==
    \/ open_settings
    \/ SetMainModsFolder
    \/ ToggleNoSpacesFolders
    \/ on_closing
    \/ save_settings_local
    \/ on_ok
    \/ on_save_prompt_delete
    \/ GenerateOnce
    \/ on_no_save

SpecSettings == InitSettings /\ [][NextSettings]_vars

----------------------------------------------------------------------------
(* Claims on the settings store (SpecLoad) *)

\* what the program reads from settings_data: references followed
Settings == Resolve(settings_data, nested)

\* the default record as written in the source
Defaults == Resolve(DEFAULT_SETTINGS, DEFAULT_NESTED)

LoadedFrom(st) == pc = "main" /\ settings_file.st = st

\* C1 (as claimed): after load_settings() has read a syntactically valid file, every
\* key of the default schema, top-level and nested, exists in the in-memory settings
\* and every key present in the file carries the file's value.
C1_AllDefaultKeysExist ==
    (pc = "main" /\ settings_file.st \in {"json", "nonobject"}) =>
        /\ \A key \in SchemaKeys : Settings[key].k # "absent"
        /\ \A key \in {"naming_rules", "backup_options"} :
              /\ Settings[key].k = "d"
              /\ \A n \in NestedKeys :
                    Defaults[key].d[n] # ABSENT => Settings[key].d[n] # ABSENT
        /\ \A key \in TopKeys :
              LET fv == settings_file.top[key] IN
                /\ fv.k = "s" => Settings[key] = fv
                /\ fv.k = "d" =>
                      /\ Settings[key].k = "d"
                      /\ \A n \in NestedKeys : fv.d[n] # ABSENT => Settings[key].d[n] = fv.d[n]

\* C2: after load_settings() has met a malformed file, the in-memory settings equal
\* the default record and the 'Settings file is corrupted' notice has been shown.
C2_MalformedYieldsDefaults ==
    LoadedFrom("malformed") => (Settings = Defaults /\ dialogs = <<CorruptNotice>>)

C2_Witness == LoadedFrom("malformed") /\ settings_data["naming_rules"].k = "ref"

\* C3: a successful load_settings() yields the one-level merge: a key absent from the
\* file keeps its default; where both the default and the file's value are mappings
\* the result is the default mapping updated key by key; otherwise the file's value
\* replaces the default (unknown keys included).
C3_OneLevelMerge ==
    LoadedFrom("json") =>
        /\ dialogs = <<>>
        /\ \A key \in TopKeys :
              LET fv == settings_file.top[key]
                  dv == Defaults[key]
                  rv == Settings[key]
              IN  CASE fv.k = "absent" -> rv = dv
                    [] fv.k = "d" /\ dv.k = "d" ->
                          /\ rv.k = "d"
                          /\ \A n \in NestedKeys :
                                rv.d[n] = IF fv.d[n] # ABSENT THEN fv.d[n] ELSE dv.d[n]
                    [] OTHER -> rv = fv

C3_Witness ==
    /\ LoadedFrom("json")
    /\ settings_file.top["naming_rules"].k = "d"
    /\ settings_file.top["naming_rules"].d["no_spaces_files"] = "true"
    /\ settings_file.top["legacy_option"].k = "s"
    /\ Settings["naming_rules"].d["no_spaces_files"] = "true"
    /\ Settings["naming_rules"].d["no_spaces_folders"] = "false"
    /\ Settings["legacy_option"] = Scalar("7")

----------------------------------------------------------------------------
(* Claims on the naming rules (SpecNaming) *)

NotSpace(c) == c # " "

NamingFlag(n) == Truthy(Settings["naming_rules"].d[n])

\* C4: apply_naming_rules strips every space when the rule for the kind of name
\* (folder or file) is set, and otherwise turns every space into an underscore when
\* convert_spaces_underscores is set; a stripping rule that applies leaves nothing to
\* convert, and the rule for the other kind of name changes nothing.
C4_NamingRulesInOrder ==
    nm.done =>
        LET strips == \/ nm.is_folder /\ NamingFlag("no_spaces_folders")
                      \/ ~nm.is_folder /\ NamingFlag("no_spaces_files")
        IN  IF strips
            THEN nm.result = SelectSeq(nm.name, NotSpace)
            ELSE IF NamingFlag("convert_spaces_underscores")
            THEN /\ Len(nm.result) = Len(nm.name)
                 /\ \A i \in 1..Len(nm.name) :
                       nm.result[i] = IF nm.name[i] = " " THEN "_" ELSE nm.name[i]
            ELSE nm.result = nm.name

\* 'a a' as a folder name with no_spaces_folders and convert_spaces_underscores: 'aa'
C4_Witness ==
    /\ nm.done
    /\ nm.is_folder
    /\ nm.name = <<"a", " ", "a">>
    /\ NamingFlag("no_spaces_folders")
    /\ NamingFlag("convert_spaces_underscores")
    /\ nm.result = <<"a", "a">>

----------------------------------------------------------------------------
(* Claims on generate_mod (Spec).  They are stated on gen, the record of the   *)
(* last run: gen.inp holds what the run read (entries, check boxes, settings,  *)
(* the disk before the run), gen.out what it returned; dirs and files are the  *)
(* disk after it.                                                              *)

Range(seq) == {seq[i] : i \in 1..Len(seq)}

\* the text is empty once surrounding whitespace is trimmed
Blank(text) == \A i \in 1..Len(text) : text[i] = " "

NothingSelected ==
    ~gen.inp.all /\ ~gen.inp.script /\ ~gen.inp.tuning /\ ~gen.inp.package

\* the settings the run read
RunSettings == Resolve(gen.inp.sd, gen.inp.h)

InitPyInScripts == RunSettings["init_py_in_scripts"] = Scalar("true")

AlwaysBackup == RunSettings["backup_options"].d["always_backup"] = "true"

\* the layout of the spec: root R, cleaned folder F, cleaned file name N
R == <<Comp(<<RunSettings["main_mods_folder"].s>>, "")>>
RF == Append(R, Comp(gen.out.folder, ""))
RFBackup == Append(R, Comp(gen.out.folder \o <<"_Backup">>, ""))
ModinfoPath == Append(RF, Comp(<<"modinfo">>, "py"))
MarkerInScripts == RF \o <<Comp(<<"Scripts">>, ""), Comp(<<"__init__">>, "py")>>
MarkerInRoot == Append(RF, Comp(<<"__init__">>, "py"))
ScriptPath == RF \o <<Comp(<<"Scripts">>, ""), Comp(gen.out.file, "py")>>
TuningPath == RF \o <<Comp(<<"Tuning">>, ""), Comp(gen.out.file, "xml")>>
PackagePath == Append(RF, Comp(gen.out.file, "package"))

\* the run wrote the file at path
WrittenNow(path) == path \in DOMAIN files /\ files[path].run = gen.inp.run

\* the run left the path as it was
Untouched(path) ==
    /\ path \in DOMAIN files <=> path \in DOMAIN gen.inp.files
    /\ path \in DOMAIN files => files[path] = gen.inp.files[path]

Succeeded == gen.ran /\ gen.out.result = "done"

\* C5: with a folder name or a file name that is empty after trimming, generate_mod
\* shows the missing-name error and changes nothing on disk.
C5_MissingNameNoMutation ==
    (gen.ran /\ (Blank(gen.inp.folder) \/ Blank(gen.inp.file))) =>
        /\ gen.out.result = "missing_name"
        /\ gen.out.dialogs \in {<<NoFolderName>>, <<NoFileName>>}
        /\ gen.out.created = <<>>
        /\ dirs = gen.inp.dirs
        /\ files = gen.inp.files

C5_Witness ==
    /\ gen.ran
    /\ gen.inp.folder = <<"m", " ", "d">>
    /\ gen.inp.file = <<" ">>
    /\ gen.inp.package
    /\ gen.out.dialogs = <<NoFileName>>
    /\ dirs = {}

\* C6 (as claimed): with no file type selected and no marker file due, generate_mod
\* ends with an empty result sequence and the 'No file type selected' message.
C6_NoSelectionIsNoop ==
    (/\ gen.ran
     /\ ~Blank(gen.inp.folder) /\ ~Blank(gen.inp.file)
     /\ gen.out.result # "error"
     /\ NothingSelected
     /\ ~InitPyInScripts) =>
        /\ gen.out.created = <<>>
        /\ gen.out.result = "noop"
        /\ gen.out.dialogs = <<NoFilesCreated>>

MarkerDue == gen.inp.all \/ gen.inp.script \/ InitPyInScripts

\* C7: a successful run creates __init__.py exactly when 'all' or 'script' is selected
\* or init_py_in_scripts is true, as its second file, in R/F/Scripts when
\* init_py_in_scripts is true and in R/F otherwise.
C7_MarkerIffAndWhere ==
    Succeeded =>
        LET here  == IF InitPyInScripts THEN MarkerInScripts ELSE MarkerInRoot
            other == IF InitPyInScripts THEN MarkerInRoot ELSE MarkerInScripts
        IN  /\ MarkerDue <=> Range(gen.out.created) \cap {MarkerInScripts, MarkerInRoot} # {}
            /\ MarkerDue =>
                  /\ Len(gen.out.created) >= 2
                  /\ gen.out.created[2] = here
                  /\ WrittenNow(here)
                  \* the other place is written only as the script file of a mod named __init__
                  /\ other \in Range(gen.out.created) => other = ScriptPath
            /\ ~MarkerDue => Untouched(MarkerInScripts) /\ Untouched(MarkerInRoot)

\* nothing selected, default settings: modinfo.py and Scripts/__init__.py
C7_Witness ==
    /\ Succeeded
    /\ NothingSelected
    /\ RunSettings = Defaults
    /\ gen.out.created = <<ModinfoPath, MarkerInScripts>>
    /\ files[MarkerInScripts].data = InitData

WantsScript == gen.inp.script \/ gen.inp.all
WantsTuning == gen.inp.tuning \/ gen.inp.all
WantsPackage == gen.inp.package \/ gen.inp.all

\* the files of the layout other than the marker, in creation order
ExpectedFiles ==
    <<ModinfoPath>> \o (IF WantsScript THEN <<ScriptPath>> ELSE <<>>)
                    \o (IF WantsTuning THEN <<TuningPath>> ELSE <<>>)
                    \o (IF WantsPackage THEN <<PackagePath>> ELSE <<>>)

\* the result sequence without the marker, which is its second entry when due
CreatedButMarker ==
    IF MarkerDue /\ Len(gen.out.created) >= 2
    THEN <<gen.out.created[1]>> \o SubSeq(gen.out.created, 3, Len(gen.out.created))
    ELSE gen.out.created

\* C8: apart from the marker and the backup copies, a successful run writes exactly
\* modinfo.py (Name = N), Scripts/N.py iff script or all, Tuning/N.xml iff tuning or
\* all, N.package iff package or all, and records them in that order.
C8_ExactFilesInOrder ==
    Succeeded =>
        /\ CreatedButMarker = ExpectedFiles
        /\ \A path \in Range(ExpectedFiles) : WrittenNow(path)
        /\ files[ModinfoPath].data = ModinfoData(gen.out.file)
        /\ WantsScript => files[ScriptPath].data = ScriptData
        /\ WantsTuning => files[TuningPath].data = TuningData
        /\ WantsPackage => files[PackagePath].data = PackageData
        /\ \A path \in DOMAIN files \cup DOMAIN gen.inp.files :
              \/ Untouched(path)
              \/ path \in Range(ExpectedFiles)
              \/ MarkerDue /\ path = gen.out.created[2]
              \/ Parent(path) = RFBackup

C8_Witness ==
    /\ Succeeded
    /\ gen.inp.tuning /\ gen.inp.package /\ ~gen.inp.script /\ ~gen.inp.all
    /\ gen.out.file = <<"f", " ", "x">>
    /\ gen.out.created = <<ModinfoPath, MarkerInScripts, TuningPath, PackagePath>>
    /\ ScriptPath \notin DOMAIN files

\* C9: a run with 'all' set leaves the disk and the result sequence that the same run
\* with script, tuning and package set and 'all' unset would leave, whatever the three
\* boxes hold.
C9_AllEqualsThree ==
    (gen.ran /\ gen.inp.all) =>
        LET three == generate_mod([gen.inp EXCEPT !.all = FALSE, !.script = TRUE,
                                                  !.tuning = TRUE, !.package = TRUE])
        IN  /\ files = three.files
            /\ dirs = three.dirs
            /\ gen.out.created = three.created
            /\ gen.out.result = three.result

C9_Witness ==
    /\ Succeeded
    /\ gen.inp.all /\ ~gen.inp.script /\ ~gen.inp.tuning /\ gen.inp.package
    /\ Len(gen.out.created) = 5
    /\ TuningPath \in DOMAIN files

\* C10 (as claimed): with always_backup a successful run leaves R/F_Backup holding,
\* flat, a copy under its base name of every file of the result sequence; without
\* always_backup no backup directory is created or written.
C10_BackupHoldsEveryFile ==
    (Succeeded /\ ~gen.out.warned) =>
        IF AlwaysBackup
        THEN /\ RFBackup \in dirs
             /\ \A d \in dirs : Len(d) > Len(RFBackup) => SubSeq(d, 1, Len(RFBackup)) # RFBackup
             /\ \A i \in 1..Len(gen.out.created) :
                   LET copy == Append(RFBackup, basename(gen.out.created[i])) IN
                     /\ WrittenNow(copy)
                     /\ files[copy].data = files[gen.out.created[i]].data
        ELSE /\ RFBackup \notin dirs
             /\ \A path \in DOMAIN files : Parent(path) # RFBackup

----------------------------------------------------------------------------
(* Claims on failures of the filesystem (SpecFault) *)

\* what the run would have done with no call failing
FaultFree == generate_mod([gen.inp EXCEPT !.fault = NoFault])

\* the number of filesystem calls that create the directories and files of the
\* layout: R/F, each file of the result sequence, Scripts for the marker and for the
\* script file, Tuning for the tuning file
CreationCalls ==
    1 + Len(FaultFree.created)
      + (IF MarkerDue /\ InitPyInScripts THEN 1 ELSE 0)
      + (IF WantsScript THEN 1 ELSE 0)
      + (IF WantsTuning THEN 1 ELSE 0)

FailedInCreation ==
    /\ gen.ran
    /\ ~Blank(gen.inp.folder) /\ ~Blank(gen.inp.file)
    /\ gen.inp.fault \in 1..CreationCalls

IsPrefix(s, t) == Len(s) <= Len(t) /\ SubSeq(t, 1, Len(s)) = s

\* C11: when a directory or file creation of generate_mod fails, the run ends with the
\* error report, no later file is created, no backup copy is made, no open-location
\* prompt is shown, and what was created before the failure stays on disk.
C11_CreationFailureAborts ==
    FailedInCreation =>
        /\ gen.out.result = "error"
        /\ dialogs = <<OperationFailed>>
        /\ ~gen.out.prompt /\ pc = "main"
        \* the result sequence stops short of the one of the run without failure
        /\ IsPrefix(gen.out.created, FaultFree.created)
        /\ Len(gen.out.created) < Len(FaultFree.created)
        \* kept: the directories and files made before the failure
        /\ gen.inp.dirs \subseteq dirs
        /\ gen.inp.fault > 1 => RF \in dirs
        /\ gen.inp.fault > 2 => gen.out.created # <<>>
        /\ \A path \in Range(gen.out.created) : WrittenNow(path)
        \* nothing else: no later file, no backup folder, no backup copy
        /\ dirs \subseteq FaultFree.dirs
        /\ RFBackup \in dirs => RFBackup \in gen.inp.dirs
        /\ \A path \in DOMAIN files \cup DOMAIN gen.inp.files :
              path \in Range(gen.out.created) \/ Untouched(path)

\* 'all' with the default settings, the write of Scripts/N.py fails: modinfo.py and
\* the marker stay, no Tuning folder, no backup
C11_Witness ==
    /\ FailedInCreation
    /\ gen.inp.all
    /\ RunSettings = Defaults
    /\ gen.inp.fault = 6
    /\ gen.out.created = <<ModinfoPath, MarkerInScripts>>
    /\ DOMAIN files = {ModinfoPath, MarkerInScripts}
    /\ dirs = {R, RF, Append(RF, Comp(<<"Scripts">>, ""))}

\* the failing call is the creation of the backup folder or one of the copies
FailedInBackup ==
    /\ gen.ran
    /\ ~Blank(gen.inp.folder) /\ ~Blank(gen.inp.file)
    /\ AlwaysBackup
    /\ gen.inp.fault \in (CreationCalls + 1)..(CreationCalls + 1 + Len(FaultFree.created))

PromptEnabled == RunSettings["show_open_location_prompt"] = Scalar("true")

\* C12: when the creation of the backup folder or a copy into it fails, generate_mod
\* shows the backup warning and no error, every file of the result sequence is in
\* place as written, and the run ends as a success, with the open-location prompt
\* when it is enabled.
C12_BackupFailureIsWarning ==
    FailedInBackup =>
        /\ gen.out.result = "done"
        /\ gen.out.warned
        /\ dialogs = <<BackupWarning>>
        /\ gen.out.created = FaultFree.created
        /\ \A path \in Range(gen.out.created) :
              WrittenNow(path) /\ files[path] = FaultFree.files[path]
        /\ gen.out.prompt = PromptEnabled
        /\ pc = IF PromptEnabled THEN "prompt" ELSE "main"

\* the third copy fails: the first two copies are in the backup folder, the prompt shows
C12_Witness ==
    /\ FailedInBackup
    /\ gen.inp.fault = CreationCalls + 4
    /\ Len(gen.out.created) = 3
    /\ WrittenNow(Append(RFBackup, basename(gen.out.created[1])))
    /\ WrittenNow(Append(RFBackup, basename(gen.out.created[2])))
    /\ Append(RFBackup, basename(gen.out.created[3])) \notin DOMAIN files
    /\ pc = "prompt"

----------------------------------------------------------------------------
(* Claims on repeated generation (Spec) *)

\* the last run repeats the one before it: same names, selection and settings, on the
\* disk that run left, and that run succeeded
Repeated ==
    /\ gen.ran /\ gen.prev.ran
    /\ gen.prev.out.result = "done"
    /\ gen.inp.folder = gen.prev.inp.folder /\ gen.inp.file = gen.prev.inp.file
    /\ gen.inp.script = gen.prev.inp.script /\ gen.inp.tuning = gen.prev.inp.tuning
    /\ gen.inp.package = gen.prev.inp.package /\ gen.inp.all = gen.prev.inp.all
    /\ RunSettings = Resolve(gen.prev.inp.sd, gen.prev.inp.h)
    /\ gen.inp.dirs = gen.prev.out.dirs /\ gen.inp.files = gen.prev.out.files

\* C13: a second generate_mod with the names, selection and settings of a successful
\* first one succeeds too, records the same files and rewrites each of them, and
\* leaves the directories, the files and their contents as the first run left them.
C13_SecondRunIdempotent ==
    Repeated =>
        /\ gen.out.result = "done"
        /\ gen.out.created = gen.prev.out.created
        /\ \A path \in Range(gen.out.created) : WrittenNow(path)
        /\ dirs = gen.prev.out.dirs
        /\ DOMAIN files = DOMAIN gen.prev.out.files
        /\ \A path \in DOMAIN files : files[path].data = gen.prev.out.files[path].data

\* 'all' twice with a backup: the second run finds every directory and file in place
C13_Witness ==
    /\ Repeated
    /\ gen.inp.all /\ AlwaysBackup
    /\ gen.inp.run = 2 /\ gen.prev.inp.run = 1
    /\ RFBackup \in gen.inp.dirs
    /\ ScriptPath \in DOMAIN gen.inp.files
    /\ gen.inp.files[ScriptPath].run = 1
    /\ files[ScriptPath].run = 2

----------------------------------------------------------------------------
(* Claims on saving the settings (SpecSettings).  settings_file and settings_bak *)
(* change only in a save_settings call, and sav records the last call, so a      *)
(* statement on "the state after the call" is a statement on every state.        *)

\* the last save_settings call found a settings file and its copy to the .bak failed
CopyFailed == sav.ran /\ sav.file.st # "absent" /\ sav.fault = "copy"

\* C14 (as claimed): when the copy of the existing settings file to settings.json.bak
\* fails, save_settings still writes the new settings to settings.json.
C14_BackupFailureDoesNotBlockSave ==
    CopyFailed => settings_file = JsonFile(sav.memory)

\* C15 (as claimed): after a successful save made while a settings file existed the
\* .bak holds what settings.json held just before that save, and a save that fails
\* leaves the .bak as it was.
C15_BakHoldsPreviousGeneration ==
    /\ (sav.ran /\ sav.ok /\ sav.file.st # "absent") => settings_bak = sav.file
    /\ (sav.ran /\ sav.ok /\ sav.file.st = "absent") => settings_bak = sav.bak
    /\ (sav.ran /\ ~sav.ok) => settings_bak = sav.bak
    /\ ~sav.ran => settings_bak = File("absent")

\* this step is a Save Settings whose save_settings call fails at the write
SaveWriteFails ==
    /\ sav' # sav
    /\ sav'.by = "save_settings_local"
    /\ sav'.fault \in {"write", "dump"}

\* the in-memory settings after the step hold what the settings window shows
MemoryHoldsEdits ==
    /\ Resolve(settings_data', nested') = sav'.memory
    /\ sav'.memory["main_mods_folder"] = Scalar(settings_window.main_mods_folder_var)
    /\ sav'.memory["naming_rules"].d["no_spaces_folders"] =
            settings_window.no_spaces_folders_var

\* C16 (as claimed): when the write of the settings file fails, the error is
\* surfaced and reaches save_settings_local, which gives up its remaining steps (no
\* success prompt, the settings window stays open), and the in-memory settings keep
\* the edited values.
C16_WriteFailureReachesCaller ==
    [][SaveWriteFails =>
          /\ OperationFailed \in Range(dialogs')
          /\ SavedSuccessfully \notin Range(dialogs')
          /\ pc' = "settings"
          /\ MemoryHoldsEdits]_vars

\* the part of C16 on the memory alone
WriteFailureKeepsMemory == [][SaveWriteFails => MemoryHoldsEdits]_vars

\* C17: a step that makes no save_settings call (opening the settings window, editing
\* it, Back or close, generate_mod, closing a prompt without 'Don't show again')
\* leaves the in-memory settings, settings.json and its .bak as they are, and after
\* a step whose save succeeded settings.json holds the in-memory settings.
C17_SettingsChangeOnlyBySave ==
    [][/\ sav' = sav =>
            /\ settings_data' = settings_data /\ nested' = nested
            /\ settings_file' = settings_file /\ settings_bak' = settings_bak
       /\ (sav' # sav /\ sav'.ok) =>
            settings_file' = JsonFile(Resolve(settings_data', nested'))]_vars

\* after a successful Save Settings and a generate_mod, the window is open again and
\* shows an edit that is not in memory nor in the file
C17_Witness ==
    /\ pc = "settings"
    /\ gen.ran /\ gen.out.result = "done"
    /\ sav.ran /\ sav.ok /\ sav.by = "save_settings_local"
    /\ Settings["main_mods_folder"] = Scalar("Alt")
    /\ settings_file = JsonFile(Settings)
    /\ settings_window.main_mods_folder_var = "Mods"
    /\ settings_window.no_spaces_folders_var # Settings["naming_rules"].d["no_spaces_folders"]

\* C20 (as claimed): while the 'Settings saved successfully.' prompt of Save Settings
\* shows, the save_settings call that preceded it has written settings.json.
C20_SuccessOnlyAfterWrite ==
    pc = "save_prompt" =>
        /\ sav.ran /\ sav.by = "save_settings_local"
        /\ sav.ok
        /\ settings_file = JsonFile(Settings)

----------------------------------------------------------------------------
(* Claims on the check boxes of the main window (Spec) *)

\* C18: a step that sets 'all' leaves script, tuning and package true, a step that
\* unsets it leaves them false, and a step that changes script, tuning or package
\* without changing 'all' is a toggle of that one box.
C18_AllToggleSync ==
    [][/\ (~all_var /\ all_var') => (script_var' /\ tuning_var' /\ package_var')
       /\ (all_var /\ ~all_var') => (~script_var' /\ ~tuning_var' /\ ~package_var')
       /\ (script_var' # script_var \/ tuning_var' # tuning_var
                \/ package_var' # package_var) =>
              \/ all_var' # all_var
              \/ /\ all_var' = all_var
                 /\ \/ UNCHANGED <<tuning_var, package_var>>
                    \/ UNCHANGED <<script_var, package_var>>
                    \/ UNCHANGED <<script_var, tuning_var>>]_vars

\* 'all' was set, which ticked the three boxes, then tuning was unticked on its own:
\* 'all' is still set
C18_Witness ==
    /\ pc = "main" /\ ~gen.ran
    /\ all_var /\ script_var /\ ~tuning_var /\ package_var

----------------------------------------------------------------------------
(* Claims on the default record (SpecLoad) *)

\* what a fallback `settings_data = DEFAULT_SETTINGS.copy()` made now would yield
FallbackNow == Resolve(dict_copy(DEFAULT_SETTINGS), nested)

\* C19 (as claimed): DEFAULT_SETTINGS, with its nested naming_rules and
\* backup_options mappings, always holds the values of its definition, so a fallback
\* to the defaults yields them.
C19_DefaultsNeverModified == FallbackNow = Defaults

----------------------------------------------------------------------------
(* Claims on the paths of one run (Spec) *)

\* C21 (as claimed): the paths recorded by one generate_mod run are pairwise distinct
\* and have pairwise distinct base names, whatever the accepted names, selection and
\* settings.
C21_ResultPathsDistinct ==
    gen.ran =>
        \A i \in 1..Len(gen.out.created) : \A j \in 1..Len(gen.out.created) :
            i # j =>
                /\ gen.out.created[i] # gen.out.created[j]
                /\ basename(gen.out.created[i]) # basename(gen.out.created[j])

====
